---- MODULE Spec2Model ----
(***************************************************************************)
(* Nunmerdox OSINT core: the query builder build_osint_queries, the search *)
(* backend search_duckduckgo and the aggregator perform_osint              *)
(* (src/src/nunmerdox/osint.py).                                           *)
(*                                                                         *)
(* Python values: a str is a TLA+ string, None is the empty tuple and an   *)
(* Optional[str] that is a str s is <<s>>; a list is a sequence; a dict is *)
(* a record (a function from its keys).                                    *)
(***************************************************************************)
EXTENDS Integers, Sequences, FiniteSets, TLC

VARIABLES
    backend,      \* what the global name search_duckduckgo is bound to
    pc,           \* position of the caller / of perform_osint
    e164,         \* perform_osint argument
    intl,         \* perform_osint argument
    max_results,  \* perform_osint argument
    delay,        \* perform_osint argument
    queries,      \* perform_osint local (line 152)
    idx,          \* position of "for q in queries" (1-based)
    results,      \* perform_osint local (line 153)
    seen,         \* build_osint_queries local "seen" as its last call left it
    built,        \* last call of build_osint_queries: its arguments and its return value
    ref,          \* history: one remembered earlier call of build_osint_queries
    events,       \* history: backend calls and sleeps of the current run, in order
    blocks,       \* history: per searched query, what the backend call gave
    origin,       \* history: per record of results, the query and item it came from
    last,         \* history: the backend exchange in flight (response as received)
    cli_pc,       \* position of the command line: "shell", "run_scan", "osint", "exit"
    cmd,          \* the scan invocation: numbers, agree_ethics, interactive
    frame,        \* run_scan's arguments, its loop position and its local "results"
    exit_code     \* exit code of the process; Running while it has not ended

osintVars == << backend, pc, e164, intl, max_results, delay, queries, idx, results,
                seen, built, ref, events, blocks, origin, last >>

cliVars == << cli_pc, cmd, frame, exit_code >>

vars == << osintVars, cliVars >>

----------------------------------------------------------------------------
(* Bounds and input sets *)

\* At most this many backend calls of one run fail or return a record.
MaxEventful == 2

None == << >>
Some(s) == << s >>

E164s == { "+34" }
Intls == { None, Some(""), Some("+34"), Some("+3 4") }

\* Arguments of the perform_osint runs.
PerformNumbers == { << "+34", Some("+34") >>, << "+34", Some("+3 4") >> }
MaxResultsArgs == { 0, 1, 2 }
DelayArgs == { -1, 0 }

Backends == { "duckduckgo", "stub" }

----------------------------------------------------------------------------
(* build_osint_queries *)

Quote(s) == "\"" \o s \o "\""

\* The nine suffixes of lines 49-57 (each f'{e164} <term>').
VOCAB ==
    << " facebook", " twitter", " instagram", " whatsapp", " \"contacto\"",
       " \"teléfono\"", " site:pastebin.com", " site:reddit.com",
       " site:linkedin.com" >>

\* "if intl:": None and the empty string are falsy.
Truthy(i) == i # None /\ i[1] # ""

\* Lines 39-58 with the appends of lines 42 and 45 in the other order.
RawQueriesIntlFirst(e, i) ==
    (IF Truthy(i) THEN << Quote(i[1]) >> ELSE << >>)
      \o << Quote(e) >>
      \o [k \in 1..Len(VOCAB) |-> e \o VOCAB[k]]

\* Lines 39-58: the list q before deduplication.
RawQueries(e, i) ==
    << Quote(e) >>
      \o (IF Truthy(i) THEN << Quote(i[1]) >> ELSE << >>)
      \o [k \in 1..Len(VOCAB) |-> e \o VOCAB[k]]

\* Line 61, a stale set: the set object of the previous call is used again.
StaleSeen == seen

\* Line 61: seen = set().
NewSeen == {}

\* Lines 63-66: the deduplication loop from position k on.
RECURSIVE DedupeLoop(_, _, _, _)
DedupeLoop(q, k, s, out) ==
    IF k > Len(q) THEN [seen |-> s, out |-> out]
    ELSE IF q[k] \notin s
         THEN DedupeLoop(q, k + 1, s \cup {q[k]}, Append(out, q[k]))
         ELSE DedupeLoop(q, k + 1, s, out)

\* Lines 60-66 without the test of line 64.
NoDedupe(q) == [seen |-> {q[k] : k \in 1..Len(q)}, out |-> q]

\* Lines 60-66.
Dedupe(q) == DedupeLoop(q, 1, NewSeen, << >>)

\* Lines 28-68; .out is the returned list, .seen the local set at return.
build_osint_queries(e, i) == Dedupe(RawQueries(e, i))

----------------------------------------------------------------------------
(* search_duckduckgo *)

\* A <div class="result"> of the response page: whether it holds an
\* <a class="result__url">, that link's href ('' when absent), the text of
\* its result__title ('' when absent) and of its result__snippet.
GoodA == [haslink |-> TRUE, href |-> "http://a", title |-> "A", body |-> "a"]
GoodB == [haslink |-> TRUE, href |-> "http://b", title |-> "B", body |-> ""]
GoodC == [haslink |-> TRUE, href |-> "http://c", title |-> "C", body |-> "c"]
NoLink == [haslink |-> FALSE, href |-> "", title |-> "X", body |-> "x"]
NoTitle == [haslink |-> TRUE, href |-> "http://n", title |-> "", body |-> "n"]

Pages ==
    { << >>, << GoodA >>, << NoLink, GoodA, NoTitle, GoodB, GoodC >> }

\* What requests.get and the parse give for one query: a page, a
\* requests.exceptions.RequestException (network error, timeout, non-2xx by
\* raise_for_status), or another exception (unparseable response).
HttpResponses ==
    { [kind |-> "ok", payload |-> p] : p \in Pages }
      \cup { [kind |-> "request_exception", payload |-> << >>],
             [kind |-> "exception", payload |-> << >>] }

\* Lines 98-124 without the test of lines 99-100.
RECURSIVE ScrapeLoopNoCap(_, _, _, _)
ScrapeLoopNoCap(divs, k, res, cap) ==
    IF k > Len(divs) THEN res
    ELSE IF divs[k].haslink /\ divs[k].href # "" /\ divs[k].title # ""
         THEN ScrapeLoopNoCap(divs, k + 1,
                  Append(res, [title |-> divs[k].title, href |-> divs[k].href,
                               body |-> divs[k].body]), cap)
         ELSE ScrapeLoopNoCap(divs, k + 1, res, cap)

\* Lines 98-124: the loop over the result divs from position k on.
RECURSIVE ScrapeLoop(_, _, _, _)
ScrapeLoop(divs, k, res, cap) ==
    IF k > Len(divs) THEN res
    ELSE IF Len(res) >= cap THEN res
    ELSE IF ~divs[k].haslink THEN ScrapeLoop(divs, k + 1, res, cap)
    ELSE IF divs[k].href # "" /\ divs[k].title # ""
         THEN ScrapeLoop(divs, k + 1,
                  Append(res, [title |-> divs[k].title, href |-> divs[k].href,
                               body |-> divs[k].body]), cap)
         ELSE ScrapeLoop(divs, k + 1, res, cap)

\* Lines 71-131: the list returned for the response resp. Both except
\* clauses (126-129) log and fall through to "return results".
search_duckduckgo(resp, cap) ==
    IF resp.kind = "ok" THEN ScrapeLoop(resp.payload, 1, << >>, cap)
    ELSE << >>

----------------------------------------------------------------------------
(* A replaced backend: the name search_duckduckgo rebound to a test double *)

PlainItem == [title |-> "S", href |-> "http://s", body |-> "s"]
TaggedItem ==
    [query |-> "spoofed", title |-> "T", href |-> "http://t", body |-> "t"]

StubResponses ==
    { [kind |-> "return", payload |-> p] :
          p \in { << >>, << TaggedItem, PlainItem >> } }
      \cup { [kind |-> "raise", payload |-> << >>] }

----------------------------------------------------------------------------
(* perform_osint *)

\* What the backend may answer to a call with the cap max_results = cap; a
\* replaced backend keeps to the cap as a maximum.
Responses(b, cap) ==
    IF b = "duckduckgo" THEN HttpResponses
    ELSE {r \in StubResponses : Len(r.payload) <= cap}

\* Line 157: the call search_duckduckgo(q, max_results=max_results) as
\* perform_osint sees it: an exception or the returned items.
SearchCall(b, resp, cap) ==
    IF b = "duckduckgo"
    THEN [raised |-> FALSE, items |-> search_duckduckgo(resp, cap)]
    ELSE [raised |-> resp.kind = "raise", items |-> resp.payload]

\* Lines 160-163: {"query": q, **it}; a key of it wins over "query": q.
MakeRecord(q, it) ==
    [k \in {"query"} \cup DOMAIN it |-> IF k \in DOMAIN it THEN it[k] ELSE q]

\* Lines 158-163 with the new records put in front.
AggregateInFront(res, q, call) ==
    IF call.raised THEN res
    ELSE [k \in 1..Len(call.items) |-> MakeRecord(q, call.items[k])] \o res

\* Lines 156-165: results after the try statement for query q.
Aggregate(res, q, call) ==
    IF call.raised THEN res
    ELSE res \o [k \in 1..Len(call.items) |-> MakeRecord(q, call.items[k])]

\* Lines 156-167 without the try/except: the exception leaves the loop.
AfterTryNoCatch(call) == IF call.raised THEN "raised" ELSE "sleep"

\* Lines 164-167: the exception is logged and control reaches time.sleep.
AfterTry(call) == "sleep"

CallEvent(q, cap) == [type |-> "call", query |-> q, arg |-> cap]
SleepEvent(d) == [type |-> "sleep", query |-> "", arg |-> d]

\* Line 167 skipped after the last query.
SleepBetween(ev, d, i, n) == IF i < n THEN Append(ev, SleepEvent(d)) ELSE ev

\* Line 167: time.sleep(delay) has returned.
SleepDone(ev, d, i, n) == Append(ev, SleepEvent(d))

Eventful(b) == b.failed \/ b.items # << >>
EventfulCount == Cardinality({k \in DOMAIN blocks : Eventful(blocks[k])})

----------------------------------------------------------------------------
(* State machine *)

NoCall == [args |-> << >>, out |-> << >>]
NoRef == [args |-> << >>, out |-> << >>, other |-> FALSE]

\* The remembered call after a call b: kept (noting whether a call with
\* other arguments has come since it was made) or replaced by b.
Remember(r, b) ==
    { [args |-> b.args, out |-> b.out, other |-> FALSE] }
      \cup (IF r = NoRef THEN {NoRef}
            ELSE {[r EXCEPT !.other = r.other \/ b.args # r.args]})
NoExchange == [kind |-> "none", payload |-> << >>]

\* No run of perform_osint is active: its arguments and locals do not exist.
IdleRun ==
    /\ e164 = ""
    /\ intl = None
    /\ max_results = 0
    /\ delay = 0
    /\ queries = << >>
    /\ idx = 0
    /\ results = << >>
    /\ events = << >>
    /\ blocks = << >>
    /\ origin = << >>
    /\ last = NoExchange

----------------------------------------------------------------------------
(* cli.py: the scan command, interactive_mode and run_scan *)

\* What the command line can pass as NUMBERS: nothing, or a string that is
\* no number followed by a number.
ScanNumbers == { << >>, << "x", "+34" >> }

\* --osint-max and --osint-delay as the command line can pass them.
OsintMaxArgs == { 0, 1 }
OsintDelayArgs == { -1, 0 }

\* What the user can type in the menus of interactive_mode.
InteractiveNumbers == { << "+34" >> }
InteractiveMaxInputs == { 0, 1 }
InteractiveDelayInputs == { 0, 1 }

\* Defaults of the options menu (lines 157-158).
DefaultOsintMax == 5
DefaultOsintDelay == 1

\* parse_phone_number (lines 47-69): None for what is no valid number, else
\* the number in E164 and in international format.
parse_phone_number(number) ==
    IF number = "+34"
    THEN Some([e164 |-> "+34", intl |-> Some("+3 4"), valid |-> TRUE])
    ELSE None

\* Lines 183-190: a value outside 1..50 leaves osint_max as it was.
InteractiveMax(val) == IF 1 <= val /\ val <= 50 THEN val ELSE DefaultOsintMax

\* Lines 193-200: a value outside 0.1..5.0 leaves osint_delay as it was.
InteractiveDelay(val) == IF 1 <= val /\ val <= 5 THEN val ELSE DefaultOsintDelay

\* The tests of scan without the one on agree_ethics (lines 411-416 removed).
ScanBranchNoEthics(numbers, agree_ethics, osint, osint_max, osint_delay, interactive) ==
    IF interactive \/ numbers = << >>
    THEN "interactive_mode"
    ELSE IF osint /\ (osint_max < 1 \/ osint_delay < 0)
         THEN "exit_config"
         ELSE "run_scan"

\* Lines 403-422 of scan: which way the command goes, tests in source order.
ScanBranch(numbers, agree_ethics, osint, osint_max, osint_delay, interactive) ==
    IF interactive \/ (numbers = << >> /\ ~interactive)
    THEN "interactive_mode"
    ELSE IF ~agree_ethics
         THEN "exit_ethics"
         ELSE IF osint /\ (osint_max < 1 \/ osint_delay < 0)
              THEN "exit_config"
              ELSE "run_scan"

NoCmd == [numbers |-> << >>, agree_ethics |-> FALSE, interactive |-> FALSE]
NoFrame == [numbers |-> << >>, osint |-> FALSE, osint_max |-> 0, osint_delay |-> 0,
            k |-> 0, results |-> << >>]

\* run_scan(numbers, osint, osint_max, osint_delay) entered (lines 238-246).
EnterRunScan(numbers, osint, osint_max, osint_delay) ==
    [numbers |-> numbers, osint |-> osint, osint_max |-> osint_max,
     osint_delay |-> osint_delay, k |-> 1, results |-> << >>]

\* No command has been given yet.
Shell ==
    /\ cli_pc = "shell"
    /\ cmd = NoCmd
    /\ frame = NoFrame
    /\ exit_code = None

Init ==
    /\ backend \in Backends
    /\ pc = "idle"
    /\ IdleRun
    /\ seen = {}
    /\ built = NoCall
    /\ ref = NoRef
    /\ Shell

\* A caller calls build_osint_queries(e, i) (lines 28-68).
call_build_osint_queries(e, i) ==
    /\ pc = "idle"
    /\ LET r == build_osint_queries(e, i)
           b == [args |-> << e, i >>, out |-> r.out]
       IN /\ seen' = r.seen
          /\ built' = b
          /\ ref' \in Remember(ref, b)
    /\ UNCHANGED << backend, pc, e164, intl, max_results, delay, queries, idx,
                    results, events, blocks, origin, last >>
    /\ UNCHANGED cliVars

\* A caller calls perform_osint(e, i, m, d): lines 134-153.
perform_osint_call(e, i, m, d) ==
    /\ pc = "idle"
    /\ LET r == build_osint_queries(e, i)
           b == [args |-> << e, i >>, out |-> r.out]
       IN /\ seen' = r.seen
          /\ built' = b
          /\ ref' \in Remember(ref, b)
          /\ queries' = r.out
          /\ pc' = IF r.out = << >> THEN "done" ELSE "search"
    /\ e164' = e
    /\ intl' = i
    /\ max_results' = m
    /\ delay' = d
    /\ idx' = 1
    /\ results' = << >>
    /\ UNCHANGED << backend, events, blocks, origin, last >>

\* One pass through lines 155-165 for q = queries[idx].
perform_osint_search ==
    /\ pc = "search"
    /\ \E resp \in Responses(backend, max_results) :
         LET q == queries[idx]
             call == SearchCall(backend, resp, max_results)
             blk == [failed |-> resp.kind \notin {"ok", "return"},
                     raised |-> call.raised,
                     items |-> IF call.raised THEN << >> ELSE call.items]
         IN /\ Eventful(blk) => EventfulCount < MaxEventful
            /\ results' = Aggregate(results, q, call)
            /\ pc' = AfterTry(call)
            /\ events' = Append(events, CallEvent(q, max_results))
            /\ blocks' = Append(blocks, blk)
            /\ origin' = origin \o [k \in 1..Len(blk.items) |-> << idx, k >>]
            /\ last' = resp
    /\ UNCHANGED << backend, e164, intl, max_results, delay, queries, idx,
                    seen, built, ref >>
    /\ UNCHANGED cliVars

\* Line 167 and the loop's next step: time.sleep raises ValueError for a
\* negative argument, and nothing in perform_osint catches it.
perform_osint_sleep ==
    /\ pc = "sleep"
    /\ IF delay < 0
       THEN /\ pc' = "raised"
            /\ UNCHANGED << events, idx >>
       ELSE /\ events' = SleepDone(events, delay, idx, Len(queries))
            /\ idx' = idx + 1
            /\ pc' = IF idx < Len(queries) THEN "search" ELSE "done"
    /\ last' = NoExchange
    /\ UNCHANGED << backend, e164, intl, max_results, delay, queries, results,
                    seen, built, ref, blocks, origin >>
    /\ UNCHANGED cliVars

\* Line 169 (pc = "done": results is returned) or the exception reaches the
\* caller (pc = "raised"); the frame of perform_osint is gone.
perform_osint_return ==
    /\ pc \in {"done", "raised"}
    /\ pc' = "idle"
    /\ e164' = ""
    /\ intl' = None
    /\ max_results' = 0
    /\ delay' = 0
    /\ queries' = << >>
    /\ idx' = 0
    /\ results' = << >>
    /\ events' = << >>
    /\ blocks' = << >>
    /\ origin' = << >>
    /\ last' = NoExchange
    /\ UNCHANGED << backend, seen, built, ref >>
    /\ UNCHANGED cliVars

\* scan, lines 403-409: --interactive, or no numbers, sends the command to
\* interactive_mode before agree_ethics is looked at. interactive_mode
\* (lines 102-235) collects at least one number and the options from the
\* user and calls run_scan (line 235).
scan_interactive(numbers, agree_ethics, osint, osint_max, osint_delay, interactive, inumbers, ienabled, imax, idelay) ==
    /\ cli_pc = "shell"
    /\ pc = "idle"
    /\ ScanBranch(numbers, agree_ethics, osint, osint_max, osint_delay, interactive)
         = "interactive_mode"
    /\ cmd' = [numbers |-> numbers, agree_ethics |-> agree_ethics,
               interactive |-> interactive]
    /\ frame' = EnterRunScan(inumbers, ienabled, InteractiveMax(imax),
                             InteractiveDelay(idelay))
    /\ cli_pc' = "run_scan"
    /\ exit_code' = None
    /\ UNCHANGED osintVars

\* scan, lines 411-416: no --agree-ethics, typer.Exit(1).
scan_exit_ethics(numbers, agree_ethics, osint, osint_max, osint_delay, interactive) ==
    /\ cli_pc = "shell"
    /\ pc = "idle"
    /\ ScanBranch(numbers, agree_ethics, osint, osint_max, osint_delay, interactive)
         = "exit_ethics"
    /\ cmd' = [numbers |-> numbers, agree_ethics |-> agree_ethics,
               interactive |-> interactive]
    /\ cli_pc' = "exit"
    /\ exit_code' = Some(1)
    /\ UNCHANGED << frame, osintVars >>

\* scan, lines 418-420: OSINT asked for with invalid tuning, typer.Exit(1).
scan_exit_config(numbers, agree_ethics, osint, osint_max, osint_delay, interactive) ==
    /\ cli_pc = "shell"
    /\ pc = "idle"
    /\ ScanBranch(numbers, agree_ethics, osint, osint_max, osint_delay, interactive)
         = "exit_config"
    /\ cmd' = [numbers |-> numbers, agree_ethics |-> agree_ethics,
               interactive |-> interactive]
    /\ cli_pc' = "exit"
    /\ exit_code' = Some(1)
    /\ UNCHANGED << frame, osintVars >>

\* scan, line 422: run_scan with the arguments of the command line.
scan_run_scan(numbers, agree_ethics, osint, osint_max, osint_delay, interactive) ==
    /\ cli_pc = "shell"
    /\ pc = "idle"
    /\ ScanBranch(numbers, agree_ethics, osint, osint_max, osint_delay, interactive)
         = "run_scan"
    /\ cmd' = [numbers |-> numbers, agree_ethics |-> agree_ethics,
               interactive |-> interactive]
    /\ frame' = EnterRunScan(numbers, osint, osint_max, osint_delay)
    /\ cli_pc' = "run_scan"
    /\ exit_code' = None
    /\ UNCHANGED osintVars

\* run_scan, lines 248-254: the number is parsed and is no valid number.
run_scan_skip ==
    /\ cli_pc = "run_scan"
    /\ frame.k <= Len(frame.numbers)
    /\ parse_phone_number(frame.numbers[frame.k]) = None
    /\ frame' = [frame EXCEPT !.k = @ + 1]
    /\ UNCHANGED << cli_pc, cmd, exit_code, osintVars >>

\* run_scan, lines 248-256 and 274: the number is parsed, OSINT is off.
run_scan_plain ==
    /\ cli_pc = "run_scan"
    /\ frame.k <= Len(frame.numbers)
    /\ parse_phone_number(frame.numbers[frame.k]) # None
    /\ ~frame.osint
    /\ frame' = [frame EXCEPT !.k = @ + 1,
                              !.results = Append(@, parse_phone_number(frame.numbers[frame.k])[1].e164)]
    /\ UNCHANGED << cli_pc, cmd, exit_code, osintVars >>

\* run_scan, lines 248-264: the number is parsed and perform_osint is called.
run_scan_osint ==
    /\ cli_pc = "run_scan"
    /\ frame.k <= Len(frame.numbers)
    /\ parse_phone_number(frame.numbers[frame.k]) # None
    /\ frame.osint
    /\ LET res == parse_phone_number(frame.numbers[frame.k])[1]
       IN perform_osint_call(res.e164, res.intl, frame.osint_max, frame.osint_delay)
    /\ cli_pc' = "osint"
    /\ UNCHANGED << cmd, frame, exit_code >>

\* run_scan, lines 265-274: perform_osint has returned or raised; the number's
\* record is appended either way.
run_scan_append ==
    /\ cli_pc = "osint"
    /\ pc = "idle"
    /\ frame' = [frame EXCEPT !.k = @ + 1,
                              !.results = Append(@, parse_phone_number(frame.numbers[frame.k])[1].e164)]
    /\ cli_pc' = "run_scan"
    /\ UNCHANGED << cmd, exit_code, osintVars >>

\* run_scan, lines 276-286, and scan returns: the process ends with code 0.
run_scan_return ==
    /\ cli_pc = "run_scan"
    /\ frame.k > Len(frame.numbers)
    /\ cli_pc' = "exit"
    /\ exit_code' = Some(0)
    /\ UNCHANGED << cmd, frame, osintVars >>

Next ==
    \/ \E e \in E164s, i \in Intls : call_build_osint_queries(e, i)
    \/ \E n \in PerformNumbers, m \in MaxResultsArgs, d \in DelayArgs :
         perform_osint_call(n[1], n[2], m, d) /\ UNCHANGED cliVars
    \/ perform_osint_search
    \/ perform_osint_sleep
    \/ perform_osint_return

Spec == Init /\ [][Next]_vars

\* The program run from the command line: one scan command, and the calls
\* run_scan makes.
NextCli ==
    \/ \E n \in ScanNumbers, a \in BOOLEAN, o \in BOOLEAN, m \in OsintMaxArgs,
          d \in OsintDelayArgs, i \in BOOLEAN, inum \in InteractiveNumbers,
          ien \in BOOLEAN, imax \in InteractiveMaxInputs,
          idel \in InteractiveDelayInputs :
         scan_interactive(n, a, o, m, d, i, inum, ien, imax, idel)
    \/ \E n \in ScanNumbers, a \in BOOLEAN, o \in BOOLEAN, m \in OsintMaxArgs,
          d \in OsintDelayArgs, i \in BOOLEAN :
         \/ scan_exit_ethics(n, a, o, m, d, i)
         \/ scan_exit_config(n, a, o, m, d, i)
         \/ scan_run_scan(n, a, o, m, d, i)
    \/ run_scan_skip
    \/ run_scan_plain
    \/ run_scan_osint
    \/ perform_osint_search
    \/ perform_osint_sleep
    \/ perform_osint_return
    \/ run_scan_append
    \/ run_scan_return

SpecCli == Init /\ [][NextCli]_vars

----------------------------------------------------------------------------
(* Properties *)

IsPrefix(a, b) == Len(a) <= Len(b) /\ \A k \in 1..Len(a) : a[k] = b[k]

\* The records the backend's items for the k-th query map to.
BlockRecords(k) ==
    [j \in 1..Len(blocks[k].items) |-> MakeRecord(queries[k], blocks[k].items[j])]

\* The concatenation of the blocks of queries 1..k, a failed query giving none.
RECURSIVE ConcatBlocks(_)
ConcatBlocks(k) ==
    IF k = 0 THEN << >>
    ELSE ConcatBlocks(k - 1)
           \o (IF blocks[k].failed THEN << >> ELSE BlockRecords(k))

\* The records of results that came from the k-th query, in order.
RecordsOf(k) ==
    SelectSeq([j \in 1..Len(results) |-> << origin[j][1], results[j] >>],
              LAMBDA p : p[1] = k)

\* C1 - Partial-failure isolation: whatever queries the backend fails on,
\* perform_osint (called with a delay it can sleep) does not raise; when it
\* returns every query has been searched, no record comes from a failed
\* query and the list is exactly the records of the other queries, in order.
C1_PartialFailureIsolation ==
    /\ pc = "raised" => delay < 0
    /\ pc = "done" =>
         /\ Len(blocks) = Len(queries)
         /\ \A j \in 1..Len(origin) : ~blocks[origin[j][1]].failed
         /\ \A k \in 1..Len(queries) :
              blocks[k].failed => RecordsOf(k) = << >>
         /\ \A k \in 1..Len(queries) :
              ~blocks[k].failed => Len(RecordsOf(k)) = Len(blocks[k].items)
         /\ results = ConcatBlocks(Len(queries))

\* A finished run in which the backend raised on one query and a later
\* query contributed records.
C1_Witness ==
    /\ pc = "done"
    /\ \E i, j \in 1..Len(blocks) :
         /\ i < j
         /\ blocks[i].raised
         /\ blocks[j].items # << >>
         /\ RecordsOf(j) # << >>

\* C2 - Order preservation: at every point of the loop the accumulated list
\* is the concatenation, in query order, of the blocks received so far, each
\* in the backend's order; a step of the run only appends to it.
C2_OrderPreservation ==
    /\ [](Len(origin) = Len(results) /\ results = ConcatBlocks(Len(blocks)))
    /\ [][pc' # "idle" => IsPrefix(results, results')]_vars

\* A finished run with two non-empty blocks, one of them of two records.
C2_Witness ==
    /\ pc = "done"
    /\ \E i, j \in 1..Len(blocks) :
         /\ i < j
         /\ Len(blocks[i].items) >= 1
         /\ Len(blocks[j].items) >= 2
         /\ Len(results) = Len(blocks[i].items) + Len(blocks[j].items)

GoodDivs(page) ==
    {k \in 1..Len(page) :
        page[k].haslink /\ page[k].href # "" /\ page[k].title # ""}

C4_FailFast ==
    (pc # "idle" /\ (max_results <= 0 \/ delay < 0)) =>
        (events = << >> /\ pc # "done")

\* C5 - Query tagging (as claimed): in a run with max_results >= 1 and
\* delay >= 0, every record of results carries in "query" the query whose
\* backend call produced it, and the title, href and body of the backend's
\* item, whatever keys the item has.
C5_QueryTagging ==
    (max_results >= 1 /\ delay >= 0) =>
        \A j \in 1..Len(results) :
            LET q == queries[origin[j][1]]
                it == blocks[origin[j][1]].items[origin[j][2]]
            IN /\ results[j].query = q
               /\ results[j].title = it.title
               /\ results[j].href = it.href
               /\ results[j].body = it.body

\* C6 - Backend failure is distinct from zero results (as claimed): in a
\* run with max_results >= 1 and delay >= 0, a query search_duckduckgo could
\* not complete reaches perform_osint as a raised failure, never as a
\* returned (empty) list.
C6_FailureDistinct ==
    (backend = "duckduckgo" /\ max_results >= 1 /\ delay >= 0) =>
        \A k \in 1..Len(blocks) : blocks[k].failed => blocks[k].raised

Range(f) == {f[k] : k \in 1..Len(f)}

\* The entries of q[1..k] that occur at no earlier position of q, in order.
RECURSIVE FirstOccurrences(_, _)
FirstOccurrences(q, k) ==
    IF k = 0 THEN << >>
    ELSE IF \E j \in 1..(k - 1) : q[j] = q[k]
         THEN FirstOccurrences(q, k - 1)
         ELSE Append(FirstOccurrences(q, k - 1), q[k])

\* C7 - Dedup invariant: the list build_osint_queries returns holds no
\* string twice, and it is the undeduplicated list with every entry that
\* occurred earlier left out (entries in the order of their first occurrence).
C7_Dedup ==
    built # NoCall =>
        LET raw == RawQueries(built.args[1], built.args[2])
            out == built.out
        IN /\ \A a, b \in 1..Len(out) : a # b => out[a] # out[b]
           /\ out = FirstOccurrences(raw, Len(raw))

\* build_osint_queries was called with intl equal to e164: the
\* undeduplicated list held the quoted number twice.
C7_Witness ==
    /\ built # NoCall
    /\ built.args[2] = Some(built.args[1])
    /\ Len(RawQueries(built.args[1], built.args[2])) > Len(built.out)

\* The nine context queries in the order the claim lists them.
C8_Nine(e) ==
    << e \o " facebook", e \o " twitter", e \o " instagram", e \o " whatsapp",
       e \o " \"contacto\"", e \o " \"teléfono\"", e \o " site:pastebin.com",
       e \o " site:reddit.com", e \o " site:linkedin.com" >>

\* C8 - Query list shape (as claimed): with intl present the list is the
\* quoted e164, the quoted intl and the nine context queries (length 11);
\* with intl absent it is the quoted e164 and the nine (length 10).
C8_ShapeAsClaimed ==
    built # NoCall =>
        LET e == built.args[1]
            i == built.args[2]
        IN /\ i # None =>
                /\ built.out = << Quote(e), Quote(i[1]) >> \o C8_Nine(e)
                /\ Len(built.out) = 11
           /\ i = None =>
                /\ built.out = << Quote(e) >> \o C8_Nine(e)
                /\ Len(built.out) = 10

\* C8 - Query list shape (amended): the quoted e164 is always first; when
\* intl is a non-empty string whose quoted form is none of the other ten
\* entries, the list is quoted e164, quoted intl, the nine context queries
\* (length 11); when intl is None, empty or equal to e164, the list is the
\* quoted e164 and the nine context queries (length 10).
C8_Shape ==
    built # NoCall =>
        LET e == built.args[1]
            i == built.args[2]
        IN /\ built.out[1] = Quote(e)
           /\ (i # None /\ i[1] # ""
                 /\ Quote(i[1]) \notin ({Quote(e)} \cup Range(C8_Nine(e)))) =>
                /\ built.out = << Quote(e), Quote(i[1]) >> \o C8_Nine(e)
                /\ Len(built.out) = 11
           /\ (i = None \/ i[1] = "" \/ i[1] = e) =>
                /\ built.out = << Quote(e) >> \o C8_Nine(e)
                /\ Len(built.out) = 10

\* A call with an intl different from e164 after a remembered call with
\* intl equal to e164: both shapes of the amended claim have occurred.
C8_Witness ==
    /\ built # NoCall
    /\ built.args[2] # None
    /\ built.args[2] # Some("")
    /\ built.args[2] # Some(built.args[1])
    /\ Len(built.out) = 11
    /\ ref # NoRef
    /\ ref.args[2] = Some(ref.args[1])
    /\ Len(ref.out) = 10

Schedule(k) ==
    [j \in 1..k |->
        IF j % 2 = 1 THEN CallEvent(queries[(j + 1) \div 2], max_results)
        ELSE SleepEvent(delay)]

\* C10 - Pacing and strict sequencing: the events of a run are at every
\* point a prefix of call(q1), delay, ..., call(qn), delay, each call with
\* the caller's max_results; a call is followed by its delay before the next
\* call; a run with a delay it can sleep always has a next step until it has
\* made n calls and n delays, and is then done.
C10_Pacing ==
    /\ pc = "search" =>
         /\ idx \in 1..Len(queries)
         /\ events = Schedule(2 * (idx - 1))
         /\ ENABLED perform_osint_search
    /\ pc = "sleep" =>
         /\ idx \in 1..Len(queries)
         /\ events = Schedule(2 * idx - 1)
         /\ ENABLED perform_osint_sleep
    /\ pc = "done" =>
         /\ idx = Len(queries) + 1
         /\ events = Schedule(2 * Len(queries))
    /\ pc = "raised" => delay < 0

\* A finished run that met a failed query, a query without results and a
\* query with results, each followed by its delay, the last one included.
C10_Witness ==
    /\ pc = "done"
    /\ Len(events) = 2 * Len(queries)
    /\ events[Len(events)] = SleepEvent(delay)
    /\ \E a, b, c \in 1..Len(blocks) :
         /\ blocks[a].failed
         /\ ~blocks[b].failed /\ blocks[b].items = << >>
         /\ blocks[c].items # << >>

\* C11 - Ethics gate as claimed: whatever the other arguments are, a scan
\* command without --agree-ethics never reaches run_scan, parses no number,
\* issues no OSINT query, and ends with exit code 1.
C11_EthicsGateAsClaimed ==
    (cli_pc # "shell" /\ ~cmd.agree_ethics) =>
        /\ cli_pc = "exit"
        /\ exit_code = Some(1)
        /\ frame = NoFrame
        /\ events = << >>

\* C11 - Ethics gate as the code has it: a scan command without
\* --agree-ethics that names numbers and is not --interactive never reaches
\* run_scan, parses no number, issues no OSINT query and ends with exit code
\* 1; and run_scan is only reached with --agree-ethics or through
\* interactive_mode (--interactive, or no numbers), which does not look at
\* agree_ethics.
C11_EthicsGate ==
    /\ (cli_pc # "shell" /\ ~cmd.agree_ethics /\ cmd.numbers # << >> /\ ~cmd.interactive) =>
          /\ cli_pc = "exit"
          /\ exit_code = Some(1)
          /\ frame = NoFrame
          /\ pc = "idle"
          /\ events = << >>
    /\ (cli_pc \in {"run_scan", "osint"} \/ frame # NoFrame) =>
          (cmd.agree_ethics \/ cmd.interactive \/ cmd.numbers = << >>)

C11_Witness ==
    /\ cli_pc = "exit"
    /\ exit_code = Some(1)
    /\ ~cmd.agree_ethics
    /\ cmd.numbers # << >>
    /\ ~cmd.interactive

====
